---------------------------- MODULE Spec2Model ----------------------------
(***************************************************************************)
(* A model of the error_tracker Python package: the Sanitizer              *)
(* (sanitizer.py), the BreadcrumbManager, the ContextManager and the       *)
(* ErrorTracker capture pipeline (tracker.py) and the transports           *)
(* (transports.py).                                                        *)
(*                                                                         *)
(* Python values are tagged records.  A scalar is [t, v] with v the        *)
(* Python repr of the value as a string; a dict is [t, items] with items a *)
(* function from keys to values; a list is [t, elems] with elems a         *)
(* sequence; a dataclass instance is [t, cls, fields].  Mapping keys that  *)
(* the sanitizer inspects are sequences of one-character strings, so that  *)
(* str.lower() and the substring test are computed, not assumed.           *)
(***************************************************************************)
EXTENDS Integers, Sequences, FiniteSets, TLC

VARIABLES
    san_obj,        \* sanitize_object's argument obj
    san_keys,       \* sanitize_object's argument sensitive_keys
    san_max_depth,  \* sanitize_object's argument max_depth
    san_result,     \* what the call returned
    san_pc,         \* "call" before the call, "done" after it
    config,         \* ErrorTracker.config (ErrorTrackerConfig)
    breadcrumbs,    \* ErrorTracker.breadcrumbs (BreadcrumbManager)
    context,        \* ErrorTracker.context (ContextManager)
    heap,           \* the caller's live Request objects, by address
    last_call,      \* what the last call of the public API did
    added,          \* the breadcrumbs added since the last clear (history)
    req_pc,         \* per logical request: the step it is about to take
    req_event,      \* per logical request: the locals of its capture, then its event
    req_g,          \* per logical request: flask's g.user (None when absent)
    tag_log,        \* the (key, value) pairs set as tags since the last clear
    thr_pc,         \* per thread in add_breadcrumb: the step it is about to take
    thr_slice,      \* per thread: the list its slice expression produced
    mem,            \* the objects of the sanitizer's caller, by address
    mem_in,         \* the sanitizer's argument obj as a value or a reference
    mem_out         \* what the sanitizer returned, as a value or a reference

san_vars == <<san_obj, san_keys, san_max_depth, san_result, san_pc>>

tracker_vars == <<config, breadcrumbs, context, heap, last_call, added>>

shared_vars == <<req_pc, req_event, req_g>>

tags_vars == <<tag_log>>

thread_vars == <<thr_pc, thr_slice>>

mem_vars == <<mem, mem_in, mem_out>>

aux_vars == <<tags_vars, thread_vars, mem_vars>>

vars == <<san_vars, tracker_vars, shared_vars, aux_vars>>

---------------------------------------------------------------------------
(* Python values *)

PyStr(s)   == [t |-> "str",   v |-> s]
PyInt(s)   == [t |-> "int",   v |-> s]
PyFloat(s) == [t |-> "float", v |-> s]
PyBool(s)  == [t |-> "bool",  v |-> s]
PyNone     == [t |-> "none",  v |-> "None"]
PyDict(f)  == [t |-> "dict", items |-> f]
PyList(s)  == [t |-> "list", elems |-> s]

\* isinstance(value, classes): bool is a subclass of int in Python, and every
\* Enum of types.py (Severity, BreadcrumbType, BreadcrumbLevel) is declared
\* `(str, Enum)`, so its members are instances of str.
isinstance(value, classes) ==
    \/ value.t \in classes
    \/ value.t = "bool" /\ "int" \in classes
    \/ value.t = "enum" /\ "str" \in classes

\* Python truthiness of the values the model uses (`x or y`, `if not x`).
truthy(value) ==
    CASE value.t = "none"  -> FALSE
      [] value.t = "bool"  -> value.v = "True"
      [] value.t = "int"   -> value.v /= "0"
      [] value.t = "float" -> value.v /= "0.0"
      [] value.t = "str"   -> value.v /= ""
      [] value.t = "dict"  -> DOMAIN value.items /= {}
      [] value.t = "list"  -> value.elems /= <<>>
      [] OTHER             -> TRUE

---------------------------------------------------------------------------
(* sanitizer.py *)

UpperChars ==
    <<"A","B","C","D","E","F","G","H","I","J","K","L","M",
      "N","O","P","Q","R","S","T","U","V","W","X","Y","Z">>

LowerChars ==
    <<"a","b","c","d","e","f","g","h","i","j","k","l","m",
      "n","o","p","q","r","s","t","u","v","w","x","y","z">>

\* str.lower() on one character
lower_char(c) ==
    IF \E i \in DOMAIN UpperChars : UpperChars[i] = c
    THEN LowerChars[CHOOSE i \in DOMAIN UpperChars : UpperChars[i] = c]
    ELSE c

\* str.lower()
str_lower(s) == [i \in 1..Len(s) |-> lower_char(s[i])]

\* Python's `sub in s` on strings
str_contains(sub, s) ==
    \E i \in 0..(Len(s) - Len(sub)) : SubSeq(s, i + 1, i + Len(sub)) = sub

DEFAULT_SENSITIVE_KEYS ==
    << <<"p","a","s","s","w","o","r","d">>,
       <<"p","a","s","s","w","d">>,
       <<"s","e","c","r","e","t">>,
       <<"a","p","i","_","k","e","y">>,
       <<"a","p","i","k","e","y">>,
       <<"a","c","c","e","s","s","_","t","o","k","e","n">>,
       <<"a","u","t","h","_","t","o","k","e","n">>,
       <<"t","o","k","e","n">>,
       <<"c","r","e","d","i","t","_","c","a","r","d">>,
       <<"c","a","r","d","_","n","u","m","b","e","r">>,
       <<"c","v","v">>,
       <<"s","s","n">>,
       <<"s","o","c","i","a","l","_","s","e","c","u","r","i","t","y","_",
         "n","u","m","b","e","r">>,
       <<"e","m","a","i","l">>,
       <<"p","h","o","n","e">>,
       <<"p","h","o","n","e","_","n","u","m","b","e","r">> >>

SANITIZED == PyStr("[Sanitized]")

MAX_DEPTH_REACHED == PyStr("[Max Depth Reached]")

sanitize_value(value) ==
    IF isinstance(value, {"str"}) THEN SANITIZED
    ELSE IF isinstance(value, {"int", "float"}) THEN PyInt("0")
    ELSE IF isinstance(value, {"bool"}) THEN PyBool("False")
    ELSE SANITIZED

is_sensitive_key(key, sensitive_keys) ==
    LET lower_key == str_lower(key)
    IN  \E i \in DOMAIN sensitive_keys :
            str_contains(str_lower(sensitive_keys[i]), lower_key)

\* `sensitive_keys or DEFAULT_SENSITIVE_KEYS`: sensitive_keys is None or a list
effective_keys(sensitive_keys) ==
    IF truthy(sensitive_keys) THEN sensitive_keys.elems
    ELSE DEFAULT_SENSITIVE_KEYS

\* sanitize_object that redacts the top level only: it neither recurses into
\* nested containers nor counts depth below the top
sanitize_object_shallow(obj, sensitive_keys, max_depth, current_depth) ==
    IF current_depth >= max_depth THEN MAX_DEPTH_REACHED
    ELSE IF ~isinstance(obj, {"dict"}) THEN obj
    ELSE
        LET keys == effective_keys(sensitive_keys)
        IN  PyDict([key \in DOMAIN obj.items |->
                    IF is_sensitive_key(key, keys)
                    THEN sanitize_value(obj.items[key])
                    ELSE obj.items[key]])

RECURSIVE sanitize_object(_, _, _, _)

\* sanitize_object that replaces every scalar value of a mapping by its
\* placeholder, whatever its key
sanitize_object_redacts_all(obj, sensitive_keys, max_depth, current_depth) ==
    IF current_depth >= max_depth THEN MAX_DEPTH_REACHED
    ELSE IF isinstance(obj, {"list"}) THEN
        PyList([i \in 1..Len(obj.elems) |->
                sanitize_object(obj.elems[i], sensitive_keys, max_depth,
                                current_depth + 1)])
    ELSE IF isinstance(obj, {"dict"}) THEN
        PyDict([key \in DOMAIN obj.items |->
                IF isinstance(obj.items[key], {"dict", "list"})
                THEN sanitize_object(obj.items[key], sensitive_keys,
                                     max_depth, current_depth + 1)
                ELSE sanitize_value(obj.items[key])])
    ELSE obj

sanitize_object(obj, sensitive_keys, max_depth, current_depth) ==
    IF current_depth >= max_depth THEN MAX_DEPTH_REACHED
    ELSE IF obj.t = "none" THEN obj
    ELSE IF ~isinstance(obj, {"dict", "list"}) THEN obj
    ELSE IF isinstance(obj, {"list"}) THEN
        PyList([i \in 1..Len(obj.elems) |->
                sanitize_object(obj.elems[i], sensitive_keys, max_depth,
                                current_depth + 1)])
    ELSE
        LET keys == effective_keys(sensitive_keys)
        IN  PyDict([key \in DOMAIN obj.items |->
                    LET value == obj.items[key]
                    IN  IF is_sensitive_key(key, keys)
                        THEN sanitize_value(value)
                        ELSE IF isinstance(value, {"dict", "list"})
                        THEN sanitize_object(value, sensitive_keys, max_depth,
                                             current_depth + 1)
                        ELSE value])

\* max_depth: int = 10
DEFAULT_MAX_DEPTH == 10

sanitize_error_event(event) ==
    sanitize_object(event, PyNone, DEFAULT_MAX_DEPTH, 0)

(* mapping keys used as inputs *)

KPassword == <<"p","a","s","s","w","o","r","d">>
KApiKey   == <<"A","P","I","_","K","e","y">>
KName     == <<"n","a","m","e">>

---------------------------------------------------------------------------
(* types.py *)

\* a member of a (str, Enum) class: it has .value
Enum(cls, value) == [t |-> "enum", cls |-> cls, v |-> value]

\* a dataclass instance
Obj(cls, fields) == [t |-> "obj", cls |-> cls, fields |-> fields]

\* a reference to a live object of the caller
Ref(addr) == [t |-> "ref", addr |-> addr]

User(id, email, extra) ==
    Obj("User", [id |-> id, email |-> email, username |-> PyNone,
                 ip_address |-> PyNone, extra |-> extra])

Request(url, headers) ==
    [url |-> url, method |-> PyStr("GET"), headers |-> headers,
     query_string |-> PyNone, data |-> PyNone, cookies |-> PyNone]

---------------------------------------------------------------------------
(* tracker.py: BreadcrumbManager *)

BreadcrumbManager(max_breadcrumbs) ==
    [max_breadcrumbs |-> max_breadcrumbs, breadcrumbs |-> <<>>]

\* the Python slice s[-n:] for n >= 0; s[-0:] is s[0:], the whole list
slice_last(s, n) ==
    IF n = 0 \/ n >= Len(s) THEN s
    ELSE SubSeq(s, Len(s) - n + 1, Len(s))

BreadcrumbManager_add(bm, breadcrumb) ==
    LET appended == Append(bm.breadcrumbs, breadcrumb)
    IN  IF Len(appended) > bm.max_breadcrumbs
        THEN [bm EXCEPT !.breadcrumbs = slice_last(appended, bm.max_breadcrumbs)]
        ELSE [bm EXCEPT !.breadcrumbs = appended]

BreadcrumbManager_get_all(bm) == bm.breadcrumbs

BreadcrumbManager_clear(bm) == [bm EXCEPT !.breadcrumbs = <<>>]

BreadcrumbManager_count(bm) == Len(bm.breadcrumbs)

---------------------------------------------------------------------------
(* tracker.py: ContextManager *)

EmptyDict == [x \in {} |-> PyNone]

\* dict.update(other), and d[key] = value
dict_update(d, other) ==
    [x \in DOMAIN d \cup DOMAIN other |->
        IF x \in DOMAIN other THEN other[x] ELSE d[x]]

dict_set(d, key, value) == dict_update(d, [x \in {key} |-> value])

ContextManager ==
    [user |-> PyNone, tags |-> EmptyDict, extra |-> EmptyDict,
     level |-> PyNone, fingerprint |-> <<>>, request |-> PyNone]

ContextManager_set_user(ctx, user) == [ctx EXCEPT !.user = user]

ContextManager_get_user(ctx) == ctx.user

ContextManager_set_tag(ctx, key, value) ==
    [ctx EXCEPT !.tags = dict_set(ctx.tags, key, value)]

\* set_tags that replaces the mapping instead of merging into it
set_tags_replaces(ctx, tags) == [ctx EXCEPT !.tags = tags]

ContextManager_set_tags(ctx, tags) ==
    [ctx EXCEPT !.tags = dict_update(ctx.tags, tags)]

ContextManager_get_tags(ctx) == ctx.tags

ContextManager_set_extra(ctx, key, value) ==
    [ctx EXCEPT !.extra = dict_set(ctx.extra, key, value)]

ContextManager_set_extras(ctx, extras) ==
    [ctx EXCEPT !.extra = dict_update(ctx.extra, extras)]

ContextManager_get_extras(ctx) == ctx.extra

ContextManager_set_level(ctx, level) == [ctx EXCEPT !.level = level]

\* self.fingerprint = fingerprint.copy(): the list is stored by value
ContextManager_set_fingerprint(ctx, fingerprint) ==
    [ctx EXCEPT !.fingerprint = fingerprint]

\* self.request = request: the reference is stored, not a copy
ContextManager_set_request(ctx, request) == [ctx EXCEPT !.request = request]

ContextManager_get_request(ctx) == ctx.request

\* clear() that leaves the request in place
clear_keeps_request(ctx) ==
    [ctx EXCEPT !.user = PyNone, !.tags = EmptyDict, !.extra = EmptyDict,
                !.level = PyNone, !.fingerprint = <<>>]

ContextManager_clear(ctx) ==
    [ctx EXCEPT !.user = PyNone, !.tags = EmptyDict, !.extra = EmptyDict,
                !.level = PyNone, !.fingerprint = <<>>, !.request = PyNone]

---------------------------------------------------------------------------
(* tracker.py: parse_exception *)

Reverse(s) == [i \in 1..Len(s) |-> s[Len(s) + 1 - i]]

StackFrame(function, lineno) ==
    Obj("StackFrame", [function |-> function, lineno |-> lineno,
                       in_app |-> TRUE])

Breadcrumb(message) ==
    Obj("Breadcrumb", [type |-> Enum("BreadcrumbType", "custom"),
                       level |-> Enum("BreadcrumbLevel", "info"),
                       message |-> message, category |-> PyNone,
                       data |-> PyNone])

\* exc.tb is the chain exc.__traceback__, tb_next, ...: Python links it from
\* the frame that caught the exception down to the frame that raised it.
parse_exception(exc) ==
    LET appended == [i \in 1..Len(exc.tb) |->
                        StackFrame(exc.tb[i].function, exc.tb[i].lineno)]
        frames == Reverse(appended)
    IN  Obj("Exception",
            [type |-> exc.type, value |-> exc.value,
             stacktrace |-> IF frames /= <<>> THEN [frames |-> frames]
                            ELSE PyNone,
             mechanism |-> [type |-> "generic", handled |-> TRUE]])

---------------------------------------------------------------------------
(* transports.py *)

\* event.level.value in _event_to_dict: AttributeError unless level is an
\* Enum member
event_to_dict_raises(event) == event.fields.level.t /= "enum"

\* Transport.send of each kind of sink.  fault: whether delivery itself fails
\* (the POST or its status for the network sink, the write to stdout for the
\* console sink, the send of a caller-supplied transport).  The result says
\* whether send raised to its caller and how many diagnostic lines it wrote.
HttpTransport_send(event, fault) ==
    LET failed == event_to_dict_raises(event) \/ fault
    IN  [raised |-> FALSE, delivered |-> ~failed,
         diag |-> IF failed THEN 1 ELSE 0]

ConsoleTransport_send(event, fault) ==
    LET failed == event_to_dict_raises(event) \/ fault
    IN  [raised |-> failed, delivered |-> ~failed, diag |-> 0]

CustomTransport_send(event, fault) ==
    [raised |-> fault, delivered |-> ~fault, diag |-> 0]

Transport_send(transport, event, fault) ==
    CASE transport = "http"    -> HttpTransport_send(event, fault)
      [] transport = "console" -> ConsoleTransport_send(event, fault)
      [] OTHER                 -> CustomTransport_send(event, fault)

---------------------------------------------------------------------------
(* tracker.py: ErrorTracker *)

\* the draws of random.random() are draw / RateScale for draw in
\* 0..RateScale-1, the sample rates rate / RateScale for rate in 0..RateScale
RateScale == 3

\* a capture that skips the sample-rate test
never_sampled_out(cfg, draw) == FALSE

\* `random.random() > self.config.sample_rate`
sampled_out(cfg, draw) == draw > cfg.sample_rate

\* the event id and the timestamps are fresh values no operation reads; the
\* model leaves them out
ErrorTracker_create_event(cfg, bm, ctx, level, message, exception) ==
    Obj("ErrorEvent",
        [level |-> level,
         platform |-> "python",
         environment |-> "production",
         message |-> message,
         exception |-> exception,
         breadcrumbs |-> BreadcrumbManager_get_all(bm),
         user |-> ContextManager_get_user(ctx),
         request |-> ContextManager_get_request(ctx),
         tags |-> IF DOMAIN ContextManager_get_tags(ctx) /= {}
                  THEN PyDict(ContextManager_get_tags(ctx)) ELSE PyNone,
         extra |-> IF DOMAIN ContextManager_get_extras(ctx) /= {}
                   THEN PyDict(ContextManager_get_extras(ctx)) ELSE PyNone,
         sdk |-> "error-tracker-python"])

\* The arguments of ErrorEvent(...) that _create_event reads from the tracker,
\* in the order the call evaluates them.  Each is a call of its own on the
\* shared BreadcrumbManager or ContextManager; `x() if x() else None` calls
\* x twice, first for the test and then for the value.
CreateEventReads ==
    <<"breadcrumbs", "user", "request", "tags_test", "tags", "extra_test", "extra">>

\* _create_event reading the user of a context of its own, not the tracker's
create_event_read_own_user(name, bm, ctx) ==
    CASE name = "breadcrumbs" -> BreadcrumbManager_get_all(bm)
      [] name = "user"        -> PyNone
      [] name = "request"     -> ContextManager_get_request(ctx)
      [] name \in {"tags_test", "tags"} -> ContextManager_get_tags(ctx)
      [] OTHER                -> ContextManager_get_extras(ctx)

\* what one of those calls returns
create_event_read(name, bm, ctx) ==
    CASE name = "breadcrumbs" -> BreadcrumbManager_get_all(bm)
      [] name = "user"        -> ContextManager_get_user(ctx)
      [] name = "request"     -> ContextManager_get_request(ctx)
      [] name \in {"tags_test", "tags"} -> ContextManager_get_tags(ctx)
      [] OTHER                -> ContextManager_get_extras(ctx)

\* config.before_send(event) for the four behaviours a hook can show: it
\* returns None, an empty (falsy) value, the event it was given, or another
\* event
ReplacedBy(event) == [event EXCEPT !.fields.message = PyStr("replaced")]

before_send(hook, event) ==
    CASE hook = "drop"    -> PyNone
      [] hook = "empty"   -> PyDict(EmptyDict)
      [] hook = "keep"    -> event
      [] OTHER            -> ReplacedBy(event)

\* what a capture call that returns before assembling an event did (was_set
\* is history kept for clear_context: whether there was anything to clear)
GatedOut(op) ==
    [op |-> op, returned |-> TRUE, event |-> PyNone, hook_called |-> FALSE,
     hook_result |-> PyNone, send_calls |-> 0, sent |-> PyNone,
     send_raised |-> FALSE, diag |-> 0, was_set |-> FALSE]

\* _send_event sending the event it was given instead of the hook's result
send_event_ignores_hook_result(cfg, op, event, hook_result, fault) ==
    IF cfg.before_send /\ ~truthy(hook_result)
    THEN [GatedOut(op) EXCEPT !.event = event, !.hook_called = TRUE,
                              !.hook_result = hook_result]
    ELSE
        LET sanitized_event == sanitize_error_event(event)
            r == Transport_send(cfg.transport, sanitized_event, fault)
        IN  [GatedOut(op) EXCEPT
                !.event = event, !.hook_called = cfg.before_send,
                !.hook_result = IF cfg.before_send THEN hook_result ELSE PyNone,
                !.send_calls = 1, !.sent = sanitized_event,
                !.send_raised = r.raised,
                !.diag = r.diag + (IF r.raised THEN 1 ELSE 0)]

\* _send_event without the try/except around self.transport.send
send_event_without_try(cfg, op, event, hook_result, fault) ==
    IF cfg.before_send /\ ~truthy(hook_result)
    THEN [GatedOut(op) EXCEPT !.event = event, !.hook_called = TRUE,
                              !.hook_result = hook_result]
    ELSE
        LET final_event == IF cfg.before_send THEN hook_result ELSE event
            sanitized_event == sanitize_error_event(final_event)
            r == Transport_send(cfg.transport, sanitized_event, fault)
        IN  [GatedOut(op) EXCEPT
                !.returned = ~r.raised,
                !.event = event, !.hook_called = cfg.before_send,
                !.hook_result = IF cfg.before_send THEN hook_result ELSE PyNone,
                !.send_calls = 1, !.sent = sanitized_event,
                !.send_raised = r.raised, !.diag = r.diag]

\* _send_event: hook_result is what before_send returns when it is called
ErrorTracker_send_event(cfg, op, event, hook_result, fault) ==
    IF cfg.before_send /\ ~truthy(hook_result)
    THEN [op |-> op, returned |-> TRUE, event |-> event, hook_called |-> TRUE,
          hook_result |-> hook_result, send_calls |-> 0, sent |-> PyNone,
          send_raised |-> FALSE, diag |-> 0, was_set |-> FALSE]
    ELSE
        LET final_event == IF cfg.before_send THEN hook_result ELSE event
            sanitized_event == sanitize_error_event(final_event)
            r == Transport_send(cfg.transport, sanitized_event, fault)
        IN  [op |-> op, returned |-> TRUE, event |-> event,
             hook_called |-> cfg.before_send,
             hook_result |-> IF cfg.before_send THEN hook_result ELSE PyNone,
             send_calls |-> 1, sent |-> sanitized_event,
             send_raised |-> r.raised,
             diag |-> r.diag + (IF r.raised THEN 1 ELSE 0),
             was_set |-> FALSE]

ErrorTracker_capture_exception(cfg, bm, ctx, exc, level, draw, hook, fault) ==
    IF ~cfg.enabled THEN GatedOut("capture_exception")
    ELSE IF sampled_out(cfg, draw) THEN GatedOut("capture_exception")
    ELSE LET exc_data == parse_exception(exc)
             event == ErrorTracker_create_event(cfg, bm, ctx, level, PyNone,
                                                [values |-> <<exc_data>>])
         IN  ErrorTracker_send_event(cfg, "capture_exception", event,
                                     before_send(hook, event), fault)

ErrorTracker_capture_message(cfg, bm, ctx, message, level, draw, hook, fault) ==
    IF ~cfg.enabled THEN GatedOut("capture_message")
    ELSE IF sampled_out(cfg, draw) THEN GatedOut("capture_message")
    ELSE LET event == ErrorTracker_create_event(cfg, bm, ctx, level, message,
                                                PyNone)
         IN  ErrorTracker_send_event(cfg, "capture_message", event,
                                     before_send(hook, event), fault)

\* add_breadcrumb appending the breadcrumb it built, not the hook's result
add_breadcrumb_ignores_hook_result(cfg, bm, breadcrumb, hook_result) ==
    IF cfg.before_breadcrumb
    THEN IF ~truthy(hook_result) THEN bm
         ELSE BreadcrumbManager_add(bm, breadcrumb)
    ELSE BreadcrumbManager_add(bm, breadcrumb)

\* add_breadcrumb: hook_result is what before_breadcrumb returns when called
ErrorTracker_add_breadcrumb(cfg, bm, breadcrumb, hook_result) ==
    IF cfg.before_breadcrumb
    THEN IF ~truthy(hook_result) THEN bm
         ELSE BreadcrumbManager_add(bm, hook_result)
    ELSE BreadcrumbManager_add(bm, breadcrumb)



---------------------------------------------------------------------------
(* The tracker: its configurations and the inputs of its operations *)

\* the largest max_breadcrumbs configured
MaxCrumbs == 2

\* the breadcrumbs added to a BreadcrumbManager between two clears
MaxAdded == 5

Config(enabled, sample_rate, max_breadcrumbs, hook, crumb_hook, transport) ==
    [enabled |-> enabled, sample_rate |-> sample_rate,
     max_breadcrumbs |-> max_breadcrumbs, before_send |-> hook,
     before_breadcrumb |-> crumb_hook, transport |-> transport]

SampleRates == {0, 1, RateScale}

Draws == 0..(RateScale - 1)

Transports == {"console", "http", "custom"}

\* the configurations tried: disabled, every sample rate, and every sink, each
\* with and without a before_send hook, and a before_breadcrumb hook; the
\* buffer holds one breadcrumb
Configs ==
    {Config(FALSE, RateScale, 1, bs, FALSE, "console") : bs \in BOOLEAN}
    \cup {Config(TRUE, r, 1, bs, FALSE, "console") :
        r \in SampleRates, bs \in BOOLEAN}
    \cup {Config(TRUE, RateScale, 1, bs, FALSE, tr) :
        bs \in BOOLEAN, tr \in Transports}
    \cup {Config(TRUE, RateScale, 1, FALSE, TRUE, "console")}

Users ==
    {User(PyStr("42"), PyStr("x@y.com"), [x \in {KApiKey} |-> PyStr("k-123")])}

TagKeys == {"a"}

TagDicts == {[x \in {"a"} |-> "1"]}

ExtraDicts == {[x \in {KPassword} |-> PyStr("hunter2")]}

KAuthToken == <<"X","-","A","u","t","h","-","T","o","k","e","n">>

RequestAddrs == {"r1"}

RequestHeaders == PyDict([x \in {KAuthToken} |-> PyStr("abc")])

BreadcrumbMessages == {PyStr("nav"), PyStr("click")}

Messages == {PyStr("hi")}

MessageLevels == {Enum("Severity", "info"), PyStr("info")}

ExceptionLevels == {Enum("Severity", "error")}

Exceptions ==
    {[type |-> "ValueError", value |-> "boom",
      tb |-> <<[function |-> "main", lineno |-> 10],
               [function |-> "view", lineno |-> 20]>>]}

HookBehaviours == {"drop", "empty", "keep", "replace"}

\* the behaviours of the configured before_send hook; without one none is drawn
HooksOf(cfg) == IF cfg.before_send THEN HookBehaviours ELSE {"keep"}

\* the content of what a request reference points to
deref(h, request) == IF request.t = "ref" THEN h[request.addr] ELSE PyNone

\* what a call that is not a capture did: op is "clear_context" for
\* clear_context and "call" for the construction and the other operations
Returned(op) == GatedOut(op)

SharedIdle ==
    /\ req_pc = "idle"
    /\ req_event = PyNone
    /\ req_g = PyNone

\* nothing of the tag history, the threads or the caller's objects is in use
AuxIdle ==
    /\ tag_log = <<>>
    /\ thr_pc = "idle"
    /\ thr_slice = PyNone
    /\ mem = <<>>
    /\ mem_in = PyNone
    /\ mem_out = PyNone

SanIdle ==
    /\ san_obj = PyNone
    /\ san_keys = PyNone
    /\ san_max_depth = DEFAULT_MAX_DEPTH
    /\ san_result = PyNone
    /\ san_pc = "idle"

\* ErrorTracker(config)
TrackerInit ==
    /\ config \in Configs
    /\ breadcrumbs = BreadcrumbManager(config.max_breadcrumbs)
    /\ context = ContextManager
    /\ heap = [a \in RequestAddrs |-> Request(PyStr("/a"), RequestHeaders)]
    /\ last_call = Returned("call")
    /\ added = <<>>

Init == SanIdle /\ SharedIdle /\ AuxIdle /\ TrackerInit

SetUser ==
    \E user \in Users \cup {PyNone} :
        /\ context' = ContextManager_set_user(context, user)
        /\ last_call' = Returned("call")
        /\ UNCHANGED <<aux_vars, san_vars, shared_vars, config, breadcrumbs, heap, added>>

SetTag ==
    \E key \in TagKeys, value \in {"1"} :
        /\ context' = ContextManager_set_tag(context, key, value)
        /\ last_call' = Returned("call")
        /\ UNCHANGED <<aux_vars, san_vars, shared_vars, config, breadcrumbs, heap, added>>

SetTags ==
    \E tags \in TagDicts :
        /\ context' = ContextManager_set_tags(context, tags)
        /\ last_call' = Returned("call")
        /\ UNCHANGED <<aux_vars, san_vars, shared_vars, config, breadcrumbs, heap, added>>

SetExtra ==
    \E key \in {KPassword}, value \in {PyStr("hunter2")} :
        /\ context' = ContextManager_set_extra(context, key, value)
        /\ last_call' = Returned("call")
        /\ UNCHANGED <<aux_vars, san_vars, shared_vars, config, breadcrumbs, heap, added>>

SetExtras ==
    \E extras \in ExtraDicts :
        /\ context' = ContextManager_set_extras(context, extras)
        /\ last_call' = Returned("call")
        /\ UNCHANGED <<aux_vars, san_vars, shared_vars, config, breadcrumbs, heap, added>>

SetRequest ==
    \E request \in {Ref(a) : a \in RequestAddrs} \cup {PyNone} :
        /\ context' = ContextManager_set_request(context, request)
        /\ last_call' = Returned("call")
        /\ UNCHANGED <<aux_vars, san_vars, shared_vars, config, breadcrumbs, heap, added>>

\* tracker.context.set_level(level): the tracker has no wrapper of its own
SetLevel ==
    \E level \in {Enum("Severity", "fatal"), PyNone} :
        /\ context' = ContextManager_set_level(context, level)
        /\ last_call' = Returned("call")
        /\ UNCHANGED <<aux_vars, san_vars, shared_vars, config, breadcrumbs, heap, added>>

\* tracker.context.set_fingerprint(fingerprint)
SetFingerprint ==
    \E fingerprint \in {<<"checkout">>, <<>>} :
        /\ context' = ContextManager_set_fingerprint(context, fingerprint)
        /\ last_call' = Returned("call")
        /\ UNCHANGED <<aux_vars, san_vars, shared_vars, config, breadcrumbs, heap, added>>

ClearContext ==
    /\ context' = ContextManager_clear(context)
    /\ breadcrumbs' = BreadcrumbManager_clear(breadcrumbs)
    /\ last_call' =
          [Returned("clear_context") EXCEPT
              !.was_set = /\ context.user /= PyNone
                          /\ context.request /= PyNone
                          /\ DOMAIN context.tags /= {}
                          /\ DOMAIN context.extra /= {}
                          /\ breadcrumbs.breadcrumbs /= <<>>]
    /\ UNCHANGED <<aux_vars, san_vars, shared_vars, config, heap, added>>

AddBreadcrumb ==
    \E message \in {PyStr("nav")}, hook \in {"drop", "keep"} :
        /\ breadcrumbs' =
              ErrorTracker_add_breadcrumb(config, breadcrumbs,
                  Breadcrumb(message),
                  IF hook = "drop" THEN PyNone ELSE Breadcrumb(message))
        /\ last_call' = Returned("call")
        /\ UNCHANGED <<aux_vars, san_vars, shared_vars, config, context, heap, added>>

CaptureMessage ==
    \E message \in Messages, level \in MessageLevels, draw \in Draws,
       hook \in HooksOf(config), fault \in BOOLEAN :
        /\ last_call' =
              ErrorTracker_capture_message(config, breadcrumbs, context,
                  message, level, draw, hook, fault)
        /\ UNCHANGED <<aux_vars, san_vars, shared_vars, config, breadcrumbs, context, heap, added>>

CaptureException ==
    \E exc \in Exceptions, level \in ExceptionLevels, draw \in Draws,
       hook \in HooksOf(config), fault \in BOOLEAN :
        /\ last_call' =
              ErrorTracker_capture_exception(config, breadcrumbs, context,
                  exc, level, draw, hook, fault)
        /\ UNCHANGED <<aux_vars, san_vars, shared_vars, config, breadcrumbs, context, heap, added>>

\* the caller assigns to a field of its own Request object
MutateRequest ==
    \E a \in RequestAddrs, url \in {PyStr("/a"), PyStr("/b")} :
        /\ heap[a].url /= url
        /\ heap' = [heap EXCEPT ![a].url = url]
        /\ UNCHANGED <<aux_vars, san_vars, shared_vars, config, breadcrumbs, context, last_call,
                       added>>

Next ==
    \/ SetUser
    \/ SetTag
    \/ SetTags
    \/ SetExtra
    \/ SetExtras
    \/ SetRequest
    \/ SetLevel
    \/ SetFingerprint
    \/ ClearContext
    \/ AddBreadcrumb
    \/ CaptureMessage
    \/ CaptureException
    \/ MutateRequest

Spec == Init /\ [][Next]_vars

---------------------------------------------------------------------------
(* Inputs of the sanitizer *)

InputKeys == {KPassword, KApiKey, KName}

Scalars == {PyStr("hunter2"), PyInt("42"), PyFloat("2.5"), PyBool("True"), PyNone}

\* nesting of the generated structures
MaxNest == 2

\* d1 :> v1 with one key, and with two
Dict1(k, v) == PyDict([x \in {k} |-> v])
Dict2(k1, v1, k2, v2) == PyDict([x \in {k1, k2} |-> IF x = k1 THEN v1 ELSE v2])

RECURSIVE Values(_)
Values(d) ==
    IF d = 0 THEN Scalars
    ELSE LET V == Values(d - 1)
         IN  Scalars
             \cup {Dict1(k, v) : k \in InputKeys, v \in V}
             \cup {Dict2(k[1], v, k[2], PyStr("x")) :
                     k \in {p \in InputKeys \X InputKeys : p[1] /= p[2]},
                     v \in V}
             \cup {PyList(<<v>>) : v \in V}
             \cup {PyList(<<PyInt("7"), v>>) : v \in V}

\* the sensitive_keys arguments tried: None (the default), [], and two lists
KeyLists ==
    {PyNone, PyList(<<>>), PyList(<< KName >>), PyList(<< <<"P","A","S","S">> >>)}

TrackerIdle ==
    /\ config = Config(TRUE, RateScale, 1, FALSE, FALSE, "console")
    /\ breadcrumbs = BreadcrumbManager(config.max_breadcrumbs)
    /\ context = ContextManager
    /\ heap = [a \in {"r1"} |-> PyNone]
    /\ last_call = PyNone
    /\ added = <<>>

SanInit ==
    /\ TrackerIdle
    /\ SharedIdle
    /\ AuxIdle
    /\ san_obj \in Values(MaxNest)
    /\ san_keys \in KeyLists
    /\ san_max_depth \in 0..(MaxNest + 1)
    /\ san_result = PyNone
    /\ san_pc = "call"

\* sanitize_object(obj, sensitive_keys, max_depth)
Sanitize ==
    /\ san_pc = "call"
    /\ san_result' = sanitize_object(san_obj, san_keys, san_max_depth, 0)
    /\ san_pc' = "done"
    /\ UNCHANGED <<san_obj, san_keys, san_max_depth, tracker_vars,
                   shared_vars, aux_vars>>

SanNext == Sanitize

SpecSanitize == SanInit /\ [][SanNext]_vars

---------------------------------------------------------------------------
(* BreadcrumbManager on its own: add and clear, for every max_breadcrumbs *)

CrumbsInit ==
    /\ SanIdle
    /\ SharedIdle
    /\ AuxIdle
    /\ \E n \in 0..MaxCrumbs :
        /\ config = Config(TRUE, RateScale, n, FALSE, FALSE, "console")
        /\ breadcrumbs = BreadcrumbManager(n)
    /\ context = ContextManager
    /\ heap = [a \in RequestAddrs |-> Request(PyStr("/a"), RequestHeaders)]
    /\ last_call = Returned("call")
    /\ added = <<>>

\* BreadcrumbManager.add(breadcrumb)
BmAdd ==
    \E message \in BreadcrumbMessages :
        /\ Len(added) < MaxAdded
        /\ breadcrumbs' = BreadcrumbManager_add(breadcrumbs, Breadcrumb(message))
        /\ added' = Append(added, Breadcrumb(message))
        /\ UNCHANGED <<aux_vars, san_vars, shared_vars, config, context, heap, last_call>>

\* BreadcrumbManager.clear()
BmClear ==
    /\ breadcrumbs' = BreadcrumbManager_clear(breadcrumbs)
    /\ added' = <<>>
    /\ UNCHANGED <<aux_vars, san_vars, shared_vars, config, context, heap, last_call>>

CrumbsNext == BmAdd \/ BmClear

SpecCrumbs == CrumbsInit /\ [][CrumbsNext]_vars

---------------------------------------------------------------------------
(* integrations/flask.py: two logical requests served by one Flask app     *)
(* whose FlaskIntegration holds one ErrorTracker.  For each request the    *)
(* before_request hook runs capture_request (set_request, then set_user    *)
(* when g.user is set); the view raises; the error handler runs            *)
(* capture_request again and then capture_exception.  The calls of the two *)
(* requests interleave, and so do the reads _create_event makes of the     *)
(* shared context: the tracker takes no lock.                              *)

LogicalRequests == {"req1", "req2"}

\* flask's request object of a logical request
FlaskRequest(r) ==
    [url |-> PyStr(IF r = "req1" THEN "/orders" ELSE "/cart"),
     method |-> PyStr("POST"),
     headers |-> RequestHeaders.items,
     query_string |-> [t |-> "bytes", v |-> ""],
     cookies |-> EmptyDict,
     remote_addr |-> PyStr(IF r = "req1" THEN "10.0.0.1" ELSE "10.0.0.2")]

\* what the application may have put in g.user for a logical request
GUsers(r) ==
    {PyNone,
     Obj("GUser", [id |-> PyInt(IF r = "req1" THEN "1" ELSE "2"),
                   email |-> PyNone, username |-> PyStr(r)])}

\* capture_request: the Request built from flask's request
capture_request_data(request) ==
    [Request(request.url, PyDict(request.headers)) EXCEPT
        !.method = request.method,
        !.query_string = PyStr(request.query_string.v),
        !.cookies = PyDict(request.cookies)]

\* capture_request: the User built from g.user; str(id) is the text the
\* model keeps in a scalar's v
capture_request_user(g_user, request) ==
    [User(PyStr(g_user.fields.id.v), g_user.fields.email, EmptyDict) EXCEPT
        !.fields.username = g_user.fields.username,
        !.fields.ip_address = request.remote_addr]

\* ErrorTrackerConfig: max_breadcrumbs: int = 100
DEFAULT_MAX_BREADCRUMBS == 100

\* FlaskIntegration(app): _create_tracker passes the DSN and leaves every
\* other setting at its default (enabled, sample_rate 1.0, max_breadcrumbs
\* 100, no hooks); the DSN picks the sink, ConsoleTransport for "console://"
\* and HttpTransport for any other
SharedInit ==
    /\ SanIdle
    /\ AuxIdle
    /\ config \in {Config(TRUE, RateScale, DEFAULT_MAX_BREADCRUMBS, FALSE, FALSE, tr) :
                      tr \in {"console", "http"}}
    /\ breadcrumbs = BreadcrumbManager(config.max_breadcrumbs)
    /\ context = ContextManager
    /\ heap = [a \in {} |-> PyNone]
    /\ last_call = Returned("call")
    /\ added = <<>>
    /\ req_pc = [r \in LogicalRequests |-> "before_request"]
    /\ req_event = [r \in LogicalRequests |-> PyNone]
    /\ req_g \in {g \in [LogicalRequests -> UNION {GUsers(r) : r \in LogicalRequests}] :
                    \A r \in LogicalRequests : g[r] \in GUsers(r)}

\* capture_request, first half: a new Request object is handed to set_request;
\* set_user follows only when hasattr(g, 'user') and g.user
ReqSetRequest(r, from, user_pc, next_pc) ==
    /\ req_pc[r] = from
    /\ LET addr == [req |-> r, call |-> from]
           request_data == capture_request_data(FlaskRequest(r))
       IN  /\ heap' = [a \in DOMAIN heap \cup {addr} |->
                          IF a = addr THEN request_data ELSE heap[a]]
           /\ context' = ContextManager_set_request(context, Ref(addr))
    /\ last_call' = Returned("call")
    /\ req_pc' = [req_pc EXCEPT ![r] = IF truthy(req_g[r]) THEN user_pc ELSE next_pc]
    /\ UNCHANGED <<aux_vars, san_vars, config, breadcrumbs, added, req_event, req_g>>

\* capture_request, second half: set_user, taken only when g.user is set
ReqSetUser(r, from, next_pc) ==
    /\ req_pc[r] = from
    /\ context' = ContextManager_set_user(context,
                      capture_request_user(req_g[r], FlaskRequest(r)))
    /\ last_call' = Returned("call")
    /\ req_pc' = [req_pc EXCEPT ![r] = next_pc]
    /\ UNCHANGED <<aux_vars, san_vars, config, breadcrumbs, heap, added, req_event, req_g>>

\* the view raises and flask dispatches to the registered error handler
ViewRaises(r) ==
    /\ req_pc[r] = "view"
    /\ req_pc' = [req_pc EXCEPT ![r] = "handle_exception"]
    /\ UNCHANGED <<aux_vars, san_vars, tracker_vars, req_event, req_g>>

\* handle_exception: capture_exception(e) up to the call of _create_event:
\* the enabled test, the sampling draw and parse_exception.  What the call
\* holds in its locals is kept in req_event until the event is built.
ReqCapture(r) ==
    /\ req_pc[r] = "capture"
    /\ \E exc \in Exceptions, level \in ExceptionLevels, draw \in Draws :
        IF ~config.enabled \/ sampled_out(config, draw)
        THEN /\ last_call' = GatedOut("capture_exception")
             /\ req_pc' = [req_pc EXCEPT ![r] = "done"]
             /\ UNCHANGED req_event
        ELSE /\ req_event' = [req_event EXCEPT ![r] =
                    [t |-> "frame", level |-> level,
                     exception |-> [values |-> <<parse_exception(exc)>>],
                     reads |-> [n \in {} |-> PyNone]]]
             /\ req_pc' = [req_pc EXCEPT ![r] = CreateEventReads[1]]
             /\ UNCHANGED last_call
    /\ UNCHANGED <<aux_vars, san_vars, config, breadcrumbs, context, heap, added, req_g>>

\* _create_event: the next read of the shared buffer or context; nothing
\* holds the other requests back between two reads.  In
\* `x() if x() else None` the second call is made only when the first
\* returned a non-empty dict.
ReqRead(r) ==
    \E i \in DOMAIN CreateEventReads :
        /\ req_pc[r] = CreateEventReads[i]
        /\ LET name == CreateEventReads[i]
               value == create_event_read(name, breadcrumbs, context)
               reads == req_event[r].reads
               skip == name \in {"tags_test", "extra_test"} /\ DOMAIN value = {}
               j == IF skip THEN i + 2 ELSE i + 1
           IN  /\ req_event' = [req_event EXCEPT ![r].reads =
                      [n \in DOMAIN reads \cup {name} |->
                          IF n = name THEN value ELSE reads[n]]]
               /\ req_pc' = [req_pc EXCEPT ![r] =
                      IF j <= Len(CreateEventReads) THEN CreateEventReads[j]
                      ELSE "send"]
        /\ UNCHANGED <<aux_vars, san_vars, tracker_vars, req_g>>

\* the ErrorEvent is built from what was read, _send_event sanitizes it (no
\* before_send hook is configured) and calls transport.send, which waits in
\* its I/O: the call holds the event in its locals, and nothing of the
\* tracker is read or written while it waits
ReqSend(r) ==
    /\ req_pc[r] = "send"
    /\ req_pc' = [req_pc EXCEPT ![r] = "in_send"]
    /\ UNCHANGED <<aux_vars, san_vars, tracker_vars, req_event, req_g>>

\* transport.send returns or raises, _send_event writes its diagnostic of a
\* failed send and returns, and the handler re-raises
ReqSendReturn(r) ==
    /\ req_pc[r] = "in_send"
    /\ LET frame == req_event[r]
           event ==
               Obj("ErrorEvent",
                   [level |-> frame.level,
                    platform |-> "python",
                    environment |-> "production",
                    message |-> PyNone,
                    exception |-> frame.exception,
                    breadcrumbs |-> frame.reads.breadcrumbs,
                    user |-> frame.reads.user,
                    request |-> frame.reads.request,
                    tags |-> IF DOMAIN frame.reads.tags_test /= {}
                             THEN PyDict(frame.reads.tags) ELSE PyNone,
                    extra |-> IF DOMAIN frame.reads.extra_test /= {}
                              THEN PyDict(frame.reads.extra) ELSE PyNone,
                    sdk |-> "error-tracker-python"])
       IN  /\ \E fault \in BOOLEAN :
                last_call' = ErrorTracker_send_event(config, "capture_exception",
                                 event, before_send("keep", event), fault)
           /\ req_event' = [req_event EXCEPT ![r] = event]
    /\ req_pc' = [req_pc EXCEPT ![r] = "done"]
    /\ UNCHANGED <<aux_vars, san_vars, config, breadcrumbs, context, heap, added, req_g>>

SharedNext ==
    \E r \in LogicalRequests :
        \* before_request: capture_request_context
        \/ ReqSetRequest(r, "before_request", "before_request_user", "view")
        \/ ReqSetUser(r, "before_request_user", "view")
        \/ ViewRaises(r)
        \* handle_exception: capture_request again, then the capture
        \/ ReqSetRequest(r, "handle_exception", "handle_exception_user", "capture")
        \/ ReqSetUser(r, "handle_exception_user", "capture")
        \/ ReqCapture(r)
        \/ ReqRead(r)
        \/ ReqSend(r)
        \/ ReqSendReturn(r)

SpecShared == SharedInit /\ [][SharedNext]_vars

---------------------------------------------------------------------------
(* Tags: set_tag, set_tags, clear_context and capture_message on one       *)
(* tracker, with the history of what the set calls named.                  *)

\* the set_tag / set_tags calls made between two clear_context calls
MaxTagCalls == 3

MergeTagValues == {"1", "2"}

\* the mappings passed to set_tags; set_tag(key, value) names the one key
MergeTagDicts ==
    UNION {[ks -> MergeTagValues] : ks \in (SUBSET {"a", "b"}) \ {{}}}

TagsInit ==
    /\ SanIdle
    /\ SharedIdle
    /\ AuxIdle
    /\ config = Config(TRUE, RateScale, 1, FALSE, FALSE, "custom")
    /\ breadcrumbs = BreadcrumbManager(config.max_breadcrumbs)
    /\ context = ContextManager
    /\ heap = [a \in RequestAddrs |-> Request(PyStr("/a"), RequestHeaders)]
    /\ last_call = Returned("call")
    /\ added = <<>>

TagsSetTag ==
    \E key \in {"a", "b"}, value \in MergeTagValues :
        /\ Len(tag_log) < MaxTagCalls
        /\ context' = ContextManager_set_tag(context, key, value)
        /\ tag_log' = Append(tag_log, [x \in {key} |-> value])
        /\ last_call' = Returned("call")
        /\ UNCHANGED <<san_vars, shared_vars, thread_vars, mem_vars, config,
                       breadcrumbs, heap, added>>

TagsSetTags ==
    \E tags \in MergeTagDicts :
        /\ Len(tag_log) < MaxTagCalls
        /\ context' = ContextManager_set_tags(context, tags)
        /\ tag_log' = Append(tag_log, tags)
        /\ last_call' = Returned("call")
        /\ UNCHANGED <<san_vars, shared_vars, thread_vars, mem_vars, config,
                       breadcrumbs, heap, added>>

TagsClearContext ==
    /\ context' = ContextManager_clear(context)
    /\ breadcrumbs' = BreadcrumbManager_clear(breadcrumbs)
    /\ tag_log' = <<>>
    /\ last_call' = Returned("clear_context")
    /\ UNCHANGED <<san_vars, shared_vars, thread_vars, mem_vars, config,
                   heap, added>>

TagsCaptureMessage ==
    \E message \in Messages, draw \in Draws, fault \in BOOLEAN :
        /\ last_call' =
              ErrorTracker_capture_message(config, breadcrumbs, context,
                  message, Enum("Severity", "info"), draw, "keep", fault)
        /\ UNCHANGED <<san_vars, shared_vars, aux_vars, config, breadcrumbs,
                       context, heap, added>>

TagsNext ==
    \/ TagsSetTag
    \/ TagsSetTags
    \/ TagsClearContext
    \/ TagsCaptureMessage

SpecTags == TagsInit /\ [][TagsNext]_vars

---------------------------------------------------------------------------
(* add_breadcrumb with and without a before_breadcrumb hook, for every     *)
(* max_breadcrumbs.                                                        *)

\* config.before_breadcrumb(breadcrumb) for the behaviours a hook can show:
\* it returns None, an empty (falsy) value, the breadcrumb it was given, or
\* another breadcrumb
before_breadcrumb(hook, breadcrumb) ==
    CASE hook = "drop"    -> PyNone
      [] hook = "empty"   -> PyDict(EmptyDict)
      [] hook = "keep"    -> breadcrumb
      [] OTHER            -> Breadcrumb(PyStr("replaced"))

\* the behaviours of the configured before_breadcrumb hook
CrumbHooksOf(cfg) == IF cfg.before_breadcrumb THEN HookBehaviours ELSE {"keep"}

HookInit ==
    /\ SanIdle
    /\ SharedIdle
    /\ AuxIdle
    /\ \E n \in 0..MaxCrumbs, crumb_hook \in BOOLEAN :
        /\ config = Config(TRUE, RateScale, n, FALSE, crumb_hook, "console")
        /\ breadcrumbs = BreadcrumbManager(n)
    /\ context = ContextManager
    /\ heap = [a \in RequestAddrs |-> Request(PyStr("/a"), RequestHeaders)]
    /\ last_call = Returned("call")
    /\ added = <<>>

\* ErrorTracker.add_breadcrumb(type, level, message)
HookAddBreadcrumb ==
    \E message \in BreadcrumbMessages, hook \in CrumbHooksOf(config) :
        LET breadcrumb == Breadcrumb(message)
            result == before_breadcrumb(hook, breadcrumb)
        IN  /\ BreadcrumbManager_count(breadcrumbs) < MaxAdded
            /\ breadcrumbs' =
                  ErrorTracker_add_breadcrumb(config, breadcrumbs, breadcrumb,
                                              result)
            /\ last_call' =
                  [op |-> "add_breadcrumb", returned |-> TRUE,
                   breadcrumb |-> breadcrumb,
                   hook_called |-> config.before_breadcrumb,
                   hook_result |-> IF config.before_breadcrumb THEN result
                                   ELSE PyNone]
            /\ UNCHANGED <<aux_vars, san_vars, shared_vars, config, context,
                           heap, added>>

\* ErrorTracker.clear_context()
HookClearContext ==
    /\ context' = ContextManager_clear(context)
    /\ breadcrumbs' = BreadcrumbManager_clear(breadcrumbs)
    /\ last_call' = Returned("clear_context")
    /\ UNCHANGED <<aux_vars, san_vars, shared_vars, config, heap, added>>

HookNext == HookAddBreadcrumb \/ HookClearContext

SpecHook == HookInit /\ [][HookNext]_vars

---------------------------------------------------------------------------
(* The sanitizer on the caller's objects: containers live in mem, by       *)
(* address, and a slot of a container holds a scalar or a reference to     *)
(* another container, so that writing into an argument and returning the   *)
(* argument itself are things the model can tell from building a new       *)
(* structure.                                                              *)

\* the keys of a mapping in the order the loop `for key, value in
\* obj.items()` visits them
RECURSIVE key_order(_)
key_order(ks) ==
    IF ks = {} THEN <<>>
    ELSE LET k == CHOOSE x \in ks : TRUE
         IN  <<k>> \o key_order(ks \ {k})

\* the index of key in the visiting order
key_index(order, key) == CHOOSE i \in DOMAIN order : order[i] = key

\* a new list / dict object at the next free address of m
new_list(m, slots) ==
    [mem |-> Append(m, [t |-> "list", elems |-> slots]),
     slot |-> Ref(Len(m) + 1)]

new_dict(m, order, slots) ==
    [mem |-> Append(m, [t |-> "dict",
                        items |-> [k \in {order[i] : i \in DOMAIN order} |->
                                      slots[key_index(order, k)]]]),
     slot |-> Ref(Len(m) + 1)]

\* the caller builds the argument: the containers of value become objects
RECURSIVE store(_, _)
RECURSIVE store_all(_, _)
store(m, value) ==
    IF value.t = "list" THEN
        LET r == store_all(m, value.elems)
        IN  new_list(r.mem, r.slots)
    ELSE IF value.t = "dict" THEN
        LET order == key_order(DOMAIN value.items)
            r == store_all(m, [i \in DOMAIN order |-> value.items[order[i]]])
        IN  new_dict(r.mem, order, r.slots)
    ELSE [mem |-> m, slot |-> value]

store_all(m, values) ==
    IF values = <<>> THEN [mem |-> m, slots |-> <<>>]
    ELSE LET h == store(m, Head(values))
             r == store_all(h.mem, Tail(values))
         IN  [mem |-> r.mem, slots |-> <<h.slot>> \o r.slots]

\* the value a slot stands for, read through the references
RECURSIVE load(_, _)
load(m, slot) ==
    IF slot.t /= "ref" THEN slot
    ELSE LET cell == m[slot.addr]
         IN  IF cell.t = "list"
             THEN PyList([i \in DOMAIN cell.elems |-> load(m, cell.elems[i])])
             ELSE PyDict([k \in DOMAIN cell.items |-> load(m, cell.items[k])])

\* isinstance(obj, (dict, list)) of what a slot holds
is_container(m, slot, classes) ==
    slot.t = "ref" /\ m[slot.addr].t \in classes

RECURSIVE sanitize_object_mem(_, _, _, _, _)
RECURSIVE sanitize_elems_mem(_, _, _, _, _)
RECURSIVE sanitize_items_mem(_, _, _, _, _, _, _)

\* sanitize_object that redacts the values of the mapping it was given in
\* place and returns that mapping
sanitize_in_place(m, obj, sensitive_keys, max_depth, current_depth) ==
    IF current_depth >= max_depth
    THEN [mem |-> m, slot |-> MAX_DEPTH_REACHED]
    ELSE IF is_container(m, obj, {"dict"}) THEN
        LET keys == effective_keys(sensitive_keys)
        IN  [mem |-> [m EXCEPT ![obj.addr].items =
                        [k \in DOMAIN @ |->
                            IF is_sensitive_key(k, keys)
                            THEN sanitize_value(@[k]) ELSE @[k]]],
             slot |-> obj]
    ELSE [mem |-> m, slot |-> obj]

\* sanitize_object(obj, sensitive_keys, max_depth, current_depth) on objects:
\* the result is the memory after the call and the slot returned
sanitize_object_mem(m, obj, sensitive_keys, max_depth, current_depth) ==
    IF current_depth >= max_depth
    THEN [mem |-> m, slot |-> MAX_DEPTH_REACHED]
    ELSE IF obj.t = "none" THEN [mem |-> m, slot |-> obj]
    ELSE IF ~is_container(m, obj, {"dict", "list"})
    THEN [mem |-> m, slot |-> obj]
    ELSE IF is_container(m, obj, {"list"}) THEN
        LET r == sanitize_elems_mem(m, m[obj.addr].elems, sensitive_keys,
                                    max_depth, current_depth)
        IN  new_list(r.mem, r.slots)
    ELSE
        LET order == key_order(DOMAIN m[obj.addr].items)
            r == sanitize_items_mem(m, m[obj.addr].items, order,
                                    effective_keys(sensitive_keys),
                                    sensitive_keys, max_depth, current_depth)
        IN  new_dict(r.mem, order, r.slots)

\* the list comprehension of lines 61-64, element by element
sanitize_elems_mem(m, elems, sensitive_keys, max_depth, current_depth) ==
    IF elems = <<>> THEN [mem |-> m, slots |-> <<>>]
    ELSE LET h == sanitize_object_mem(m, Head(elems), sensitive_keys,
                                      max_depth, current_depth + 1)
             r == sanitize_elems_mem(h.mem, Tail(elems), sensitive_keys,
                                     max_depth, current_depth)
         IN  [mem |-> r.mem, slots |-> <<h.slot>> \o r.slots]

\* the loop of lines 70-76 over the keys still to visit
sanitize_items_mem(m, items, order, keys, sensitive_keys, max_depth, depth) ==
    IF order = <<>> THEN [mem |-> m, slots |-> <<>>]
    ELSE LET key == Head(order)
             value == items[key]
             h == IF is_sensitive_key(key, keys)
                  THEN [mem |-> m, slot |-> sanitize_value(value)]
                  ELSE IF is_container(m, value, {"dict", "list"})
                  THEN sanitize_object_mem(m, value, sensitive_keys,
                                           max_depth, depth + 1)
                  ELSE [mem |-> m, slot |-> value]
             r == sanitize_items_mem(h.mem, items, Tail(order), keys,
                                     sensitive_keys, max_depth, depth)
         IN  [mem |-> r.mem, slots |-> <<h.slot>> \o r.slots]

\* the sensitive_keys arguments tried on objects: the default and one list
MemKeyLists == {PyNone, PyList(<< KName >>)}

\* the arguments tried on objects: the structures of Values over two scalars
MemScalars == {PyStr("hunter2"), PyInt("42")}

RECURSIVE MemValues(_)
MemValues(d) ==
    IF d = 0 THEN MemScalars
    ELSE LET V == MemValues(d - 1)
         IN  MemScalars
             \cup {Dict1(k, v) : k \in InputKeys, v \in V}
             \cup {Dict2(k[1], v, k[2], PyStr("x")) :
                     k \in {p \in InputKeys \X InputKeys : p[1] /= p[2]},
                     v \in V}
             \cup {PyList(<<v>>) : v \in V}
             \cup {PyList(<<PyInt("7"), v>>) : v \in V}

MemIdle ==
    /\ tag_log = <<>>
    /\ thr_pc = "idle"
    /\ thr_slice = PyNone

MemInit ==
    /\ TrackerIdle
    /\ SharedIdle
    /\ MemIdle
    /\ san_obj \in MemValues(MaxNest)
    /\ san_keys \in MemKeyLists
    /\ san_max_depth \in 0..(MaxNest + 1)
    /\ san_result = PyNone
    /\ san_pc = "call"
    /\ mem = store(<<>>, san_obj).mem
    /\ mem_in = store(<<>>, san_obj).slot
    /\ mem_out = PyNone

\* sanitize_object(obj, sensitive_keys, max_depth) on the caller's objects
MemSanitize ==
    /\ san_pc = "call"
    /\ LET r == sanitize_object_mem(mem, mem_in, san_keys, san_max_depth, 0)
       IN  /\ mem' = r.mem
           /\ mem_out' = r.slot
           /\ san_result' = load(r.mem, r.slot)
    /\ san_pc' = "done"
    /\ UNCHANGED <<san_obj, san_keys, san_max_depth, mem_in, tracker_vars,
                   shared_vars, tags_vars, thread_vars>>

MemNext == MemSanitize

SpecMem == MemInit /\ [][MemNext]_vars

---------------------------------------------------------------------------
(* Two threads in add_breadcrumb on one tracker whose buffer is full.  The *)
(* statements of BreadcrumbManager.add are separate steps: the append, the *)
(* length test, the slice expression and the assignment of its result.     *)

Threads == {"t1", "t2"}

\* the breadcrumb a thread adds, and the ones the buffer holds at the start
ThreadBreadcrumb(t) == Breadcrumb(PyStr(t))

OldMessages == <<"old1", "old2", "old3", "old4">>

OldBreadcrumbs(n) == [i \in 1..n |-> Breadcrumb(PyStr(OldMessages[i]))]

ThreadsInit ==
    /\ SanIdle
    /\ SharedIdle
    /\ tag_log = <<>>
    /\ mem = <<>>
    /\ mem_in = PyNone
    /\ mem_out = PyNone
    /\ \E n \in 1..MaxCrumbs :
        /\ config = Config(TRUE, RateScale, n, FALSE, FALSE, "console")
        /\ breadcrumbs = [BreadcrumbManager(n) EXCEPT
                             !.breadcrumbs = OldBreadcrumbs(n)]
        /\ added = OldBreadcrumbs(n)
    /\ context = ContextManager
    /\ heap = [a \in RequestAddrs |-> Request(PyStr("/a"), RequestHeaders)]
    /\ last_call = Returned("call")
    /\ thr_pc = [t \in Threads |-> "append"]
    /\ thr_slice = [t \in Threads |-> <<>>]

\* self.breadcrumbs.append(breadcrumb)
ThrAppend(t) ==
    /\ thr_pc[t] = "append"
    /\ breadcrumbs' = [breadcrumbs EXCEPT
                          !.breadcrumbs = Append(@, ThreadBreadcrumb(t))]
    /\ added' = Append(added, ThreadBreadcrumb(t))
    /\ thr_pc' = [thr_pc EXCEPT ![t] = "check"]
    /\ UNCHANGED <<san_vars, shared_vars, tags_vars, mem_vars, config,
                   context, heap, last_call, thr_slice>>

\* if len(self.breadcrumbs) > self.max_breadcrumbs
ThrCheck(t) ==
    /\ thr_pc[t] = "check"
    /\ thr_pc' = [thr_pc EXCEPT ![t] =
                     IF Len(breadcrumbs.breadcrumbs) > breadcrumbs.max_breadcrumbs
                     THEN "slice" ELSE "done"]
    /\ UNCHANGED <<san_vars, shared_vars, tags_vars, mem_vars, tracker_vars,
                   thr_slice>>

\* self.breadcrumbs[-self.max_breadcrumbs:], a new list
ThrSlice(t) ==
    /\ thr_pc[t] = "slice"
    /\ thr_slice' = [thr_slice EXCEPT ![t] =
                        slice_last(breadcrumbs.breadcrumbs,
                                   breadcrumbs.max_breadcrumbs)]
    /\ thr_pc' = [thr_pc EXCEPT ![t] = "assign"]
    /\ UNCHANGED <<san_vars, shared_vars, tags_vars, mem_vars, tracker_vars>>

\* self.breadcrumbs = <the list the slice produced>
ThrAssign(t) ==
    /\ thr_pc[t] = "assign"
    /\ breadcrumbs' = [breadcrumbs EXCEPT !.breadcrumbs = thr_slice[t]]
    /\ thr_pc' = [thr_pc EXCEPT ![t] = "done"]
    /\ UNCHANGED <<san_vars, shared_vars, tags_vars, mem_vars, config,
                   context, heap, last_call, added, thr_slice>>

ThreadsNext ==
    \E t \in Threads :
        \/ ThrAppend(t)
        \/ ThrCheck(t)
        \/ ThrSlice(t)
        \/ ThrAssign(t)

SpecThreads == ThreadsInit /\ [][ThreadsNext]_vars

---------------------------------------------------------------------------
(* Properties *)

Captures == {"capture_message", "capture_exception"}

\* every value under a sensitive key of the mapping d is a redaction
\* placeholder
SensitiveRedacted(d) ==
    \A k \in DOMAIN d :
        is_sensitive_key(k, DEFAULT_SENSITIVE_KEYS)
            => d[k] \in {SANITIZED, PyInt("0"), PyBool("False")}

EventRedacted(h, event) ==
    /\ event.fields.extra.t = "dict"
        => SensitiveRedacted(event.fields.extra.items)
    /\ event.fields.user.t = "obj"
        => SensitiveRedacted(event.fields.user.fields.extra)
    /\ event.fields.request.t = "ref"
        => SensitiveRedacted(h[event.fields.request.addr].headers.items)

\* C1: every event handed to Transport.send is sanitized: the values under
\* sensitive keys of its extra, user and request data are redaction
\* placeholders.
C1_SentEventsSanitized ==
    last_call.send_calls = 1 => EventRedacted(heap, last_call.sent)

\* C4: with enabled = true and sample_rate = 0.0 a capture makes no
\* Transport.send call, whatever the draw; with sample_rate = 1.0 and no
\* before_send hook it makes exactly one.
C4_SamplingGate ==
    (last_call.op \in Captures /\ config.enabled) =>
        /\ config.sample_rate = 0 => last_call.send_calls = 0
        /\ (config.sample_rate = RateScale /\ ~config.before_send)
              => last_call.send_calls = 1

\* C5: with a before_send hook configured, an empty or absent hook result
\* means no Transport.send call for that capture, and any other result is the
\* event that is sanitized and passed to Transport.send, not the event the
\* hook was given.
C5_BeforeSend ==
    (last_call.op \in Captures /\ last_call.hook_called) =>
        IF truthy(last_call.hook_result)
        THEN /\ last_call.send_calls = 1
             /\ last_call.sent = sanitize_error_event(last_call.hook_result)
             /\ last_call.hook_result /= last_call.event
                    => last_call.sent /= last_call.event
        ELSE /\ last_call.send_calls = 0
             /\ last_call.sent = PyNone

\* a capture whose hook returned another event, which reached the transport
C5_Witness ==
    /\ last_call.op \in Captures
    /\ last_call.hook_called
    /\ truthy(last_call.hook_result)
    /\ last_call.hook_result /= last_call.event
    /\ last_call.send_calls = 1
    /\ last_call.sent.fields.message = PyStr("replaced")

\* C6: Transport.send of a built-in sink (HttpTransport, ConsoleTransport)
\* never raises to its caller, whatever fails while delivering.
C6_SendNeverRaises ==
    (last_call.send_calls = 1 /\ config.transport \in {"http", "console"})
        => ~last_call.send_raised

\* a capture step: the call recorded after the step is a capture
CaptureStep == last_call'.op \in Captures /\ UNCHANGED <<config, heap>>

\* the capture got past the gates and the hook, so that it reached the
\* transport call
Attempts(call) ==
    /\ call.event /= PyNone
    /\ call.hook_called => truthy(call.hook_result)

\* C7: when the transport's send raises, the capture call returns normally,
\* the context and the breadcrumbs are as before the call, and a capture
\* made after it still calls the transport.
C7_TransportFailureSilent ==
    [][ /\ (CaptureStep /\ last_call'.send_raised) =>
              /\ last_call'.returned
              /\ context' = context
              /\ breadcrumbs' = breadcrumbs
        /\ (CaptureStep /\ last_call.send_raised /\ Attempts(last_call')) =>
              last_call'.send_calls = 1 ]_vars

\* a capture on a tracker with a user set whose caller-supplied transport
\* raised, and which returned
C7_Witness ==
    /\ last_call.op \in Captures
    /\ config.transport = "custom"
    /\ last_call.send_raised
    /\ last_call.returned
    /\ context.user /= PyNone

\* the request content an event carries, read through its reference
EventRequest(h, call) ==
    IF call.event = PyNone THEN PyNone
    ELSE deref(h, call.event.fields.request)

\* C9: set_request captures the request by value: when the caller later
\* changes its own Request object, neither the request data of the event
\* already assembled nor the request held by the ContextManager changes.
C9_RequestSnapshot ==
    [][ (last_call.op \in Captures /\ last_call.event /= PyNone
            /\ last_call' = last_call /\ context' = context) =>
            /\ EventRequest(heap', last_call) = EventRequest(heap, last_call)
            /\ deref(heap', context.request) = deref(heap, context.request)
      ]_vars

EventIsEmpty(event) ==
    /\ event.fields.tags = PyNone
    /\ event.fields.extra = PyNone
    /\ event.fields.user = PyNone
    /\ event.fields.request = PyNone
    /\ event.fields.breadcrumbs = <<>>

\* C10: after clear_context() the BreadcrumbManager counts 0 breadcrumbs and
\* the next event assembled has no tags, no extra, no user, no request and no
\* breadcrumbs, whatever was set before.
C10_ClearContext ==
    /\ [](last_call.op = "clear_context" =>
            /\ BreadcrumbManager_count(breadcrumbs) = 0
            /\ EventIsEmpty(ErrorTracker_create_event(config, breadcrumbs,
                    context, Enum("Severity", "info"), PyStr("hi"), PyNone)))
    /\ [][ (last_call.op = "clear_context" /\ CaptureStep
                /\ last_call'.event /= PyNone)
              => EventIsEmpty(last_call'.event) ]_vars

\* clear_context() has just cleared a user, a request, tags, extra and
\* breadcrumbs
C10_Witness ==
    /\ last_call.op = "clear_context"
    /\ last_call.was_set
    /\ BreadcrumbManager_count(breadcrumbs) = 0

\* the last n elements of s
LastN(s, n) == SubSeq(s, Len(s) - n + 1, Len(s))

Min(a, b) == IF a <= b THEN a ELSE b

\* C2: for every max_breadcrumbs >= 0, after any adds and clears, count() is
\* at most max_breadcrumbs and get_all() is the last min(n, max_breadcrumbs)
\* of the n breadcrumbs added since the last clear, in insertion order.
C2_BoundedFifo ==
    /\ BreadcrumbManager_count(breadcrumbs) <= breadcrumbs.max_breadcrumbs
    /\ BreadcrumbManager_get_all(breadcrumbs)
          = LastN(added, Min(Len(added), breadcrumbs.max_breadcrumbs))

\* the placeholder the claim names for each type of value
Placeholder(value) ==
    CASE value.t = "str"              -> SANITIZED
      [] value.t \in {"int", "float"} -> PyInt("0")
      [] value.t = "bool"             -> PyBool("False")
      [] OTHER                        -> SANITIZED

\* C3: in the sanitized form of a mapping, the value under every key that
\* contains a sensitive marker (case-insensitively) is the placeholder of the
\* value's type: "[Sanitized]" for a string, 0 for an int or float, false for
\* a boolean, "[Sanitized]" for anything else, nested mappings and lists
\* included.
C3_Placeholders ==
    (san_pc = "done" /\ san_obj.t = "dict" /\ san_max_depth > 0) =>
        /\ san_result.t = "dict"
        /\ \A k \in DOMAIN san_obj.items :
              is_sensitive_key(k, effective_keys(san_keys))
                  => san_result.items[k] = Placeholder(san_obj.items[k])

\* the user the integration sets for a logical request
OwnUser(r, event) ==
    event.fields.user = capture_request_user(req_g[r], FlaskRequest(r))

\* a capture of request r that has read the named argument in this step
ReadStep(r, name) == req_pc[r] = name /\ req_pc'[r] /= name

\* C8: the tracker keeps one context for all requests and _create_event reads
\* it without a lock: the user in a request's event is whatever the shared
\* context holds at the moment the capture reads the user, and the request
\* whatever it holds at the moment the capture reads the request, whichever
\* logical request wrote them last; the event sent carries exactly what was
\* read.  So there is an interleaving in which a request's event carries the
\* other request's user (C8_Witness).
C8_SharedContext ==
    [][ \A r \in LogicalRequests :
          /\ ReadStep(r, "user") => req_event'[r].reads.user = context.user
          /\ ReadStep(r, "request") =>
                req_event'[r].reads.request = context.request
          /\ (req_pc[r] = "in_send" /\ req_pc'[r] = "done") =>
                /\ req_event'[r].fields.user = req_event[r].reads.user
                /\ req_event'[r].fields.request = req_event[r].reads.request
                /\ last_call'.event = req_event'[r]
      ]_vars

\* a request with a user of its own, set in before_request and again in the
\* error handler, whose captured event carries the other request's user
C8_Witness ==
    \E r \in LogicalRequests, o \in LogicalRequests :
        /\ r /= o
        /\ req_pc[r] = "done"
        /\ req_event[r] /= PyNone
        /\ truthy(req_g[r])
        /\ truthy(req_g[o])
        /\ OwnUser(o, req_event[r])
        /\ ~OwnUser(r, req_event[r])

\* the keys the set calls of the log named
LoggedKeys(log) == UNION {DOMAIN log[i] : i \in DOMAIN log}

\* the value the last call of the log that named key gave it
LatestValue(log, key) ==
    LET last == CHOOSE i \in DOMAIN log :
                    /\ key \in DOMAIN log[i]
                    /\ \A j \in DOMAIN log : key \in DOMAIN log[j] => j <= i
    IN  log[last][key]

\* C11: tags merge: after any set_tag / set_tags calls since the last
\* clear_context, the tags of the event assembled next map every key one of
\* the calls named to the value the last such call gave it, and no key is
\* removed by a call that does not name it.
C11_TagsMerge ==
    (last_call.op \in Captures /\ last_call.event /= PyNone /\ tag_log /= <<>>)
        => /\ last_call.event.fields.tags.t = "dict"
           /\ DOMAIN last_call.event.fields.tags.items = LoggedKeys(tag_log)
           /\ \A k \in LoggedKeys(tag_log) :
                 last_call.event.fields.tags.items[k] = LatestValue(tag_log, k)

\* an event assembled after set a, set b, set a again: b is kept and a has
\* its second value
C11_Witness ==
    /\ last_call.op \in Captures
    /\ last_call.event /= PyNone
    /\ Len(tag_log) = 3
    /\ DOMAIN tag_log[1] = {"a"}
    /\ DOMAIN tag_log[2] = {"b"}
    /\ DOMAIN tag_log[3] = {"a"}
    /\ tag_log[3]["a"] /= tag_log[1]["a"]
    /\ last_call.event.fields.tags.items["a"] = tag_log[3]["a"]
    /\ last_call.event.fields.tags.items["b"] = tag_log[2]["b"]

\* new is old with b appended, less what was evicted from its front
AppendedOne(old, new, b) ==
    \E n \in 0..Len(old) : new = Append(LastN(old, n), b)

\* C12: add_breadcrumb with a before_breadcrumb hook: an empty or absent hook
\* result leaves the buffer as it was; any other result is the one breadcrumb
\* appended, in place of the breadcrumb that was built.  Without a hook the
\* breadcrumb that was built is appended.
C12_BeforeBreadcrumb ==
    [][ (last_call'.op = "add_breadcrumb" /\ config' = config) =>
          LET old == BreadcrumbManager_get_all(breadcrumbs)
              new == BreadcrumbManager_get_all(breadcrumbs')
          IN  IF config.before_breadcrumb
              THEN /\ last_call'.hook_called
                   /\ IF truthy(last_call'.hook_result)
                      THEN AppendedOne(old, new, last_call'.hook_result)
                      ELSE new = old
              ELSE /\ ~last_call'.hook_called
                   /\ AppendedOne(old, new, last_call'.breadcrumb) ]_vars

\* the hook returned another breadcrumb than the one built, and it is the
\* newest of a buffer that held a breadcrumb before
C12_Witness ==
    /\ last_call.op = "add_breadcrumb"
    /\ last_call.hook_called
    /\ truthy(last_call.hook_result)
    /\ last_call.hook_result /= last_call.breadcrumb
    /\ BreadcrumbManager_count(breadcrumbs) = 2
    /\ breadcrumbs.breadcrumbs[2] = last_call.hook_result
    /\ breadcrumbs.breadcrumbs[1] /= last_call.hook_result

\* what a call did when it neither ran the hook nor called the transport
NoHookNoSend(call) ==
    /\ call.returned
    /\ call.event = PyNone
    /\ ~call.hook_called
    /\ call.send_calls = 0
    /\ call.sent = PyNone

\* C13: a capture call that is gated out (enabled = false, or the draw
\* exceeds sample_rate) does nothing: before_send is not invoked,
\* Transport.send is not called, and the ContextManager fields and the
\* breadcrumb buffer are as before the call.
C13_GatedNoOp ==
    /\ [](\A draw \in Draws, hook \in HookBehaviours, fault \in BOOLEAN :
            (~config.enabled \/ draw > config.sample_rate) =>
                /\ \A message \in Messages, level \in MessageLevels :
                      NoHookNoSend(
                          ErrorTracker_capture_message(config, breadcrumbs,
                              context, message, level, draw, hook, fault))
                /\ \A exc \in Exceptions, level \in ExceptionLevels :
                      NoHookNoSend(
                          ErrorTracker_capture_exception(config, breadcrumbs,
                              context, exc, level, draw, hook, fault)))
    /\ [][ (CaptureStep /\ last_call'.event = PyNone) =>
              /\ NoHookNoSend(last_call')
              /\ context' = context
              /\ breadcrumbs' = breadcrumbs ]_vars

\* a capture that the sample rate gated out, on an enabled tracker with a
\* before_send hook, a user and a breadcrumb
C13_Witness ==
    /\ last_call.op \in Captures
    /\ last_call.event = PyNone
    /\ config.enabled
    /\ config.sample_rate < RateScale
    /\ config.before_send
    /\ context.user /= PyNone
    /\ BreadcrumbManager_count(breadcrumbs) > 0

\* C14: sanitization never mutates its input: after sanitize(x) every object
\* of the caller holds what it held before the call, so the content of x at
\* every nesting level is its pre-call content, and what is returned for a
\* mapping or a list is not x itself but an object that did not exist before.
C14_InputNotMutated ==
    [][ (san_pc = "call" /\ san_pc' = "done") =>
          /\ \A a \in DOMAIN mem : a \in DOMAIN mem' /\ mem'[a] = mem[a]
          /\ load(mem', mem_in) = san_obj
          /\ mem_in.t = "ref" =>
                /\ mem_out' /= mem_in
                /\ mem_out'.t = "ref" => mem_out'.addr \notin DOMAIN mem
      ]_vars

\* a mapping with a sensitive key and a nested container, deeper than
\* max_depth, was sanitized: parts of the result differ from the argument,
\* which reads as before
C14_Witness ==
    /\ san_pc = "done"
    /\ mem_in.t = "ref"
    /\ mem_out.t = "ref"
    /\ san_max_depth = 1
    /\ san_obj.t = "dict"
    /\ \E k \in DOMAIN san_obj.items :
          /\ is_sensitive_key(k, effective_keys(san_keys))
          /\ san_result.items[k] /= san_obj.items[k]
    /\ \E k \in DOMAIN san_obj.items :
          /\ san_obj.items[k].t \in {"dict", "list"}
          /\ san_result.items[k] = MAX_DEPTH_REACHED
    /\ load(mem, mem_in) = san_obj

\* the values a container holds, and how many containers nest in a value
Children(value) ==
    IF value.t = "list" THEN {value.elems[i] : i \in DOMAIN value.elems}
    ELSE IF value.t = "dict" THEN {value.items[k] : k \in DOMAIN value.items}
    ELSE {}

\* the largest of a set of naturals, 0 for the empty set
SetMax(ns) == IF ns = {} THEN 0 ELSE CHOOSE n \in ns : \A o \in ns : o <= n

RECURSIVE Nesting(_)
Nesting(value) ==
    IF value.t \notin {"dict", "list"} THEN 0
    ELSE 1 + SetMax({Nesting(c) : c \in Children(value)})

RECURSIVE ContainsMarker(_)
ContainsMarker(value) ==
    \/ value = MAX_DEPTH_REACHED
    \/ \E c \in Children(value) : ContainsMarker(c)

\* out is in cut at max_depth: every container of in that sits at depth
\* max_depth has the marker in its place in out, and the containers above it
\* keep their shape.  With redacted_ok a container that is the value of a
\* mapping key may have "[Sanitized]" in its place instead.
RECURSIVE CutAt(_, _, _, _, _)
CutAt(in, out, depth, max_depth, redacted_ok) ==
    IF in.t \notin {"dict", "list"} THEN TRUE
    ELSE IF depth >= max_depth THEN out = MAX_DEPTH_REACHED
    ELSE IF in.t = "list" THEN
        /\ out.t = "list"
        /\ Len(out.elems) = Len(in.elems)
        /\ \A i \in DOMAIN in.elems :
              CutAt(in.elems[i], out.elems[i], depth + 1, max_depth,
                    redacted_ok)
    ELSE
        /\ out.t = "dict"
        /\ DOMAIN out.items = DOMAIN in.items
        /\ \A k \in DOMAIN in.items :
              \/ /\ redacted_ok
                 /\ in.items[k].t \in {"dict", "list"}
                 /\ out.items[k] = SANITIZED
              \/ CutAt(in.items[k], out.items[k], depth + 1, max_depth,
                       redacted_ok)

\* C15 as stated: whenever the argument nests deeper than max_depth, the
\* result holds the marker "[Max Depth Reached]" at the cutoff depth in place
\* of every subtree there, and nothing of the argument below the cutoff.
C15_DepthCap ==
    (san_pc = "done" /\ Nesting(san_obj) > san_max_depth) =>
        /\ ContainsMarker(san_result)
        /\ CutAt(san_obj, san_result, 0, san_max_depth, FALSE)
        /\ Nesting(san_result) <= san_max_depth

\* C15 as amended: the marker stands in place of every subtree at the cutoff
\* depth unless the subtree lies within a mapping value that was redacted
\* whole to "[Sanitized]"; either way nothing of the argument below the
\* cutoff is in the result.
C15_DepthCapAmended ==
    (san_pc = "done" /\ Nesting(san_obj) > san_max_depth) =>
        /\ CutAt(san_obj, san_result, 0, san_max_depth, TRUE)
        /\ Nesting(san_result) <= san_max_depth

\* a list whose second element is a container at the cutoff depth was
\* sanitized, and the marker stands in the container's place
C15_Witness ==
    /\ san_pc = "done"
    /\ san_max_depth = 1
    /\ san_obj.t = "list"
    /\ Len(san_obj.elems) = 2
    /\ san_obj.elems[2].t \in {"dict", "list"}
    /\ Nesting(san_obj) > san_max_depth
    /\ san_result.elems[2] = MAX_DEPTH_REACHED

\* some marker of the list markers is a case-insensitive substring of key
MatchesMarker(key, markers) ==
    \E i \in DOMAIN markers :
        str_contains(str_lower(markers[i]), str_lower(key))

\* out is a redaction placeholder standing where in stood
IsRedaction(in, out) ==
    /\ out \in {SANITIZED, PyInt("0"), PyBool("False")}
    /\ out /= in

\* at every nesting level that out still shows, a key of a mapping of in is
\* redacted in out exactly when a marker matches it
RECURSIVE RedactedIff(_, _, _)
RedactedIff(in, out, markers) ==
    IF in.t = "list" /\ out.t = "list" THEN
        \A i \in DOMAIN in.elems : RedactedIff(in.elems[i], out.elems[i], markers)
    ELSE IF in.t = "dict" /\ out.t = "dict" THEN
        \A k \in DOMAIN in.items :
            /\ MatchesMarker(k, markers) <=> IsRedaction(in.items[k], out.items[k])
            /\ ~MatchesMarker(k, markers) =>
                  RedactedIff(in.items[k], out.items[k], markers)
    ELSE TRUE

\* C16: the sensitive-key set is overridable per call: with an explicit list
\* S of markers, a mapping key is redacted if and only if a marker of S is a
\* case-insensitive substring of it, for every S, the empty one included
\* (which redacts nothing), at every nesting level; the default markers are
\* not applied.
C16_KeySetOverridable ==
    (san_pc = "done" /\ san_keys /= PyNone) =>
        RedactedIff(san_obj, san_result, san_keys.elems)

IsScalar(value) == value.t \notin {"dict", "list"}

\* the scalars of in stand unchanged in out: the top-level value, the values
\* under the non-sensitive keys of a mapping, and the elements of a list, as
\* deep as out still shows.  With capped, a top-level value or list element
\* that sits at depth max_depth or below is the marker instead.
RECURSIVE ScalarsPass(_, _, _, _, _, _)
ScalarsPass(in, out, markers, depth, max_depth, capped) ==
    IF IsScalar(in) THEN
        IF capped /\ depth >= max_depth THEN out = MAX_DEPTH_REACHED
        ELSE out = in
    ELSE IF in.t = "list" /\ out.t = "list" THEN
        \A i \in DOMAIN in.elems :
            ScalarsPass(in.elems[i], out.elems[i], markers, depth + 1,
                        max_depth, capped)
    ELSE IF in.t = "dict" /\ out.t = "dict" THEN
        \A k \in DOMAIN in.items :
            ~MatchesMarker(k, markers) =>
                IF IsScalar(in.items[k]) THEN out.items[k] = in.items[k]
                ELSE ScalarsPass(in.items[k], out.items[k], markers,
                                 depth + 1, max_depth, capped)
    ELSE TRUE

\* C17 as stated: scalars and None pass through the sanitizer unchanged
\* wherever they occur (top-level value, value under a non-sensitive mapping
\* key, list element), at every depth and for every max_depth, the list
\* elements at the depth cutoff and max_depth = 0 included.
C17_ScalarsPassThrough ==
    san_pc = "done" =>
        ScalarsPass(san_obj, san_result, effective_keys(san_keys), 0,
                    san_max_depth, FALSE)

\* C17 as amended: scalars and None pass through unchanged above the depth
\* cutoff: the top-level value when max_depth >= 1, a value under a
\* non-sensitive key of a mapping that the result shows, and a list element
\* at a depth below max_depth.  A top-level value with max_depth = 0, and an
\* element of a list at depth max_depth - 1, is replaced by the marker
\* "[Max Depth Reached]".
C17_ScalarsPassAboveCutoff ==
    san_pc = "done" =>
        ScalarsPass(san_obj, san_result, effective_keys(san_keys), 0,
                    san_max_depth, TRUE)

\* a list above the cutoff was sanitized: its scalar element and the scalar
\* under a non-sensitive key of the mapping it holds came through unchanged
C17_Witness ==
    /\ san_pc = "done"
    /\ san_max_depth = 2
    /\ san_obj.t = "list"
    /\ Len(san_obj.elems) = 2
    /\ IsScalar(san_obj.elems[1])
    /\ san_result.elems[1] = san_obj.elems[1]
    /\ san_obj.elems[2].t = "dict"
    /\ \E k \in DOMAIN san_obj.elems[2].items :
          /\ ~MatchesMarker(k, effective_keys(san_keys))
          /\ IsScalar(san_obj.elems[2].items[k])
          /\ san_obj.elems[2].items[k] /= PyNone
          /\ san_result.elems[2].items[k] = san_obj.elems[2].items[k]

\* the stack frames of the exception record an event carries
EventFrames(event) ==
    event.fields.exception.values[1].fields.stacktrace.frames

\* C18: for an exception whose traceback links k >= 2 frames from the
\* outermost (oldest) call to the innermost (raising) call, the frames of the
\* exception record are in that order: the first is the oldest call and the
\* last is the frame that raised.
C18_FramesOldestFirst ==
    (last_call.op = "capture_exception" /\ last_call.event /= PyNone) =>
        \E exc \in Exceptions :
            LET frames == EventFrames(last_call.event)
            IN  /\ Len(exc.tb) >= 2
                /\ last_call.event.fields.exception.values[1].fields.value
                      = exc.value
                /\ Len(frames) = Len(exc.tb)
                /\ \A i \in DOMAIN frames :
                      /\ frames[i].fields.function = exc.tb[i].function
                      /\ frames[i].fields.lineno = exc.tb[i].lineno

\* C19: when two threads call add_breadcrumb concurrently on a tracker whose
\* buffer is full, no appended breadcrumb is lost other than by oldest-first
\* eviction: once both calls are complete the buffer holds exactly the
\* max_breadcrumbs most recently appended breadcrumbs, both new ones included
\* (as far as max_breadcrumbs has room for them).
C19_ConcurrentAddKeepsNewest ==
    (\A t \in Threads : thr_pc[t] = "done") =>
        /\ BreadcrumbManager_get_all(breadcrumbs)
              = LastN(added, breadcrumbs.max_breadcrumbs)
        /\ breadcrumbs.max_breadcrumbs >= 2 =>
              \A t \in Threads :
                  \E i \in DOMAIN breadcrumbs.breadcrumbs :
                      breadcrumbs.breadcrumbs[i] = ThreadBreadcrumb(t)

=============================================================================
